---------------------------- MODULE Spec2Model ----------------------------
(***************************************************************************)
(* A model of scripts/gazebo_env.py: the frame distance metric             *)
(* (link_distance), the cartesian product utility, the correspondence      *)
(* weight matrix (calculate_weight_matrix) and the GazeboEnv environment   *)
(* (constructor, reset, step, _joint_state_callback, _calculate_reward).   *)
(*                                                                         *)
(* Arithmetic.  The code computes in floating point; the model computes in *)
(* exact arithmetic over the following units.                              *)
(*   - Vector components are integers.  The Euclidean norm is the integer  *)
(*     square root; the vectors the specifications draw are chosen so that *)
(*     every norm taken is the root of a perfect square, hence exact.      *)
(*   - A link distance is an integer number of thousandths, so the weights *)
(*     0.0, 1.0, 0.001 and 0.04 of the code are 0, 1000, 1 and 40.         *)
(*   - Chain distances (link_dists_from_origin) are integers in units of   *)
(*     ln(2)/100, so that the code's exp(-distinctness * d) is a power of  *)
(*     1/2: distinctness is counted in hundreds (the code's default 100    *)
(*     is 1) and exp(-distinctness * d) = 1 / 2^(distinctness * d).        *)
(*   - Weights and rewards are exact rationals <<numerator, denominator>>, *)
(*     in lowest terms with a positive denominator.                        *)
(***************************************************************************)
EXTENDS Integers, Sequences, FiniteSets, TLC

VARIABLES
    pc,                     \* where the agent's thread is in reset()/step()
    e_embodiment,           \* self.e_embodiment
    l_embodiment,           \* self.l_embodiment
    weight_matrix,          \* self.weight_matrix
    e_position,             \* self.e_position
    e_velocity,             \* self.e_velocity
    e_effort,               \* self.e_effort
    l_position,             \* self.l_position
    l_velocity,             \* self.l_velocity
    last_time_stamp,        \* self.last_time_stamp
    received_first_ldata,   \* self._received_first_ldata
    done,                   \* self.done
    bagfile,                \* self.bagfile: which recording is open
    bagfile_usage_count,    \* self.bagfile_usage_count
    step_done,              \* the local done of step()
    reward,                 \* the local reward of step()
    fields_at_reward,       \* history: the learner's state as line 283 read it
    returned,               \* what the last reset()/step() returned or raised
    paused,                 \* the simulator: physics is paused
    queue,                  \* the subscriber's queue (queue_size=1)
    l_message,              \* history: where the learner's state came from
    calls,                  \* history: the calls the current reset()/step() made
    bag_served,             \* history: the reset() calls the open recording served
    open_bags,              \* history: how many recordings are open
    call,                   \* a call of one of the module's pure functions
    ret                     \* the outcome of that call

envVars == <<pc, e_embodiment, l_embodiment, weight_matrix, e_position, e_velocity,
             e_effort, l_position, l_velocity, last_time_stamp, received_first_ldata,
             done, bagfile, bagfile_usage_count, step_done, reward, fields_at_reward,
             returned, paused, queue, l_message, calls, bag_served, open_bags>>

callVars == <<call, ret>>

vars == <<envVars, callVars>>

-----------------------------------------------------------------------------
(* Bounds of the model. *)

\* The embodiments drawn have 1..MaxLinks links.
MaxLinks == 2

\* Chain distances of links are drawn from 0..MaxDist.
MaxDist == 2

\* distinctness is drawn from 0..MaxDistinctness (in hundreds).
MaxDistinctness == 2

\* Joint angles are drawn from 0..MaxAngle (quarter turns), joint velocities
\* from 0..MaxVel.
MaxAngle == 2

MaxVel == 1

\* Joint state messages are stamped 0..MaxStamp (seconds of simulated time).
MaxStamp == 1

\* The lists given to cartesian_product have 1..MaxLen elements.
MaxLen == 2

-----------------------------------------------------------------------------
(* Integers, vectors and rationals. *)

Abs(x) == IF x < 0 THEN -x ELSE x

RECURSIVE Pow2(_)
Pow2(k) == IF k = 0 THEN 1 ELSE 2 * Pow2(k - 1)

RECURSIVE Gcd(_, _)
Gcd(a, b) == IF b = 0 THEN a ELSE Gcd(b, a % b)

\* The integer square root: the r with r*r <= n < (r+1)*(r+1).
RECURSIVE ISqrtFrom(_, _)
ISqrtFrom(n, r) == IF (r + 1) * (r + 1) > n THEN r ELSE ISqrtFrom(n, r + 1)

ISqrt(n) == ISqrtFrom(n, 0)

\* The sequence s, written out element by element.
Tuple(s) == s \o <<>>

\* The rows x cols matrix (a sequence of rows) with entry F(i, j) at row i,
\* column j.
Matrix(rows, cols, F(_, _)) ==
    Tuple([i \in 1..rows |-> Tuple([j \in 1..cols |-> F(i, j)])])

RECURSIVE SumSeq(_)
SumSeq(s) == IF s = <<>> THEN 0 ELSE Head(s) + SumSeq(Tail(s))

\* a - b on vectors (numpy's elementwise minus)
VecSub(a, b) == Tuple([k \in 1..Len(a) |-> a[k] - b[k]])

\* np.dot of two vectors
Dot(a, b) == SumSeq(Tuple([k \in 1..Len(a) |-> a[k] * b[k]]))

\* np.linalg.norm of a vector
Norm(v) == ISqrt(Dot(v, v))

\* The rational n/d, d # 0, in lowest terms with a positive denominator.
Rat(n, d) ==
    LET g == Gcd(Abs(n), Abs(d))
        s == IF d < 0 THEN -1 ELSE 1
    IN  <<(s * n) \div g, (s * d) \div g>>

RatOfInt(n) == <<n, 1>>

RatAdd(p, q) ==
    LET l == (p[2] \div Gcd(p[2], q[2])) * q[2]
    IN  Rat(p[1] * (l \div p[2]) + q[1] * (l \div q[2]), l)

RatMul(p, q) ==
    LET g1 == Gcd(Abs(p[1]), q[2])
        g2 == Gcd(Abs(q[1]), p[2])
    IN  Rat((p[1] \div g1) * (q[1] \div g2), (p[2] \div g2) * (q[2] \div g1))

RatDiv(p, q) == RatMul(p, <<q[2], q[1]>>)

RatLeq(p, q) == p[1] * q[2] <= q[1] * p[2]

RECURSIVE RatSum(_)
RatSum(s) == IF s = <<>> THEN RatOfInt(0) ELSE RatAdd(Head(s), RatSum(Tail(s)))

\* All sequences over S with lengths lo..hi.
SeqsOf(S, lo, hi) == UNION {[1..n -> S] : n \in lo..hi}

-----------------------------------------------------------------------------
(* numpy arrays.  An array is [shape, flat]: its shape and its elements in *)
(* row-major order, as numpy stores them.  A Python list of arrays (or of  *)
(* equally shaped nested lists) is a sequence of arrays.                   *)

Scalar(x) == [shape |-> <<>>, flat |-> <<x>>]

Vector(v) == [shape |-> <<Len(v)>>, flat |-> v]

\* The 3 x 4 matrix with the given columns.
MatrixOfCols(c0, c1, c2, c3) ==
    [shape |-> <<3, 4>>,
     flat  |-> <<c0[1], c1[1], c2[1], c3[1],
                 c0[2], c1[2], c2[2], c3[2],
                 c0[3], c1[3], c2[3], c3[3]>>]

\* m[:, c] of a two-dimensional array (c counts from 0)
Col(m, c) ==
    Tuple([r \in 1..m.shape[1] |-> m.flat[(r - 1) * m.shape[2] + c + 1]])

\* np.shape(list)[1:] of a list of equally shaped elements; np.shape([]) is (0,)
ElemShape(list) == IF list = <<>> THEN <<>> ELSE list[1].shape

\* np.repeat(list, n, 0): every element n times, in place
Repeat(list, n) ==
    Tuple([k \in 1..(Len(list) * n) |-> list[((k - 1) \div n) + 1]])

\* np.tile(list, [n, 1, ...]): the whole list n times
Tile(list, n) ==
    Tuple([k \in 1..(Len(list) * n) |-> list[((k - 1) % Len(list)) + 1]])

\* np.reshape(flat, [rows, cols, ...]), row-major: a sequence of rows
Reshape(flat, rows, cols) ==
    LET At(i, j) == flat[(i - 1) * cols + j]
    IN  Matrix(rows, cols, At)

-----------------------------------------------------------------------------
(* link_distance: the frame distance metric (in thousandths). *)

weight_t_dist == 0

weight_o_dist == 1000

weight_lin_vel == 1

weight_rot_vel == 40

\* A slip: every column after the axis read one place to the left, the
\* translation taken from column 1.
link_distance_shifted(data_matrix1, data_matrix2) ==
    LET translation_distance == Norm(VecSub(Col(data_matrix1, 1), Col(data_matrix2, 1)))
        orientation_distance == 1 - Dot(Col(data_matrix1, 0), Col(data_matrix2, 0))
        lin_vel_distance == Norm(VecSub(Col(data_matrix1, 2), Col(data_matrix2, 2)))
        rot_vel_distance == Norm(VecSub(Col(data_matrix1, 3), Col(data_matrix2, 3)))
    IN  weight_t_dist * translation_distance + weight_o_dist * orientation_distance
          + weight_lin_vel * lin_vel_distance + weight_rot_vel * rot_vel_distance

\* A slip: the sign of the scalar product.
link_distance_plus(data_matrix1, data_matrix2) ==
    LET translation_distance == Norm(VecSub(Col(data_matrix1, 3), Col(data_matrix2, 3)))
        orientation_distance == 1 + Dot(Col(data_matrix1, 0), Col(data_matrix2, 0))
        lin_vel_distance == Norm(VecSub(Col(data_matrix1, 1), Col(data_matrix2, 1)))
        rot_vel_distance == Norm(VecSub(Col(data_matrix1, 2), Col(data_matrix2, 2)))
    IN  weight_t_dist * translation_distance + weight_o_dist * orientation_distance
          + weight_lin_vel * lin_vel_distance + weight_rot_vel * rot_vel_distance

\* A slip: the difference of the norms in place of the norm of the difference.
link_distance_signed(data_matrix1, data_matrix2) ==
    LET translation_distance == Norm(Col(data_matrix1, 3)) - Norm(Col(data_matrix2, 3))
        orientation_distance == 1 - Dot(Col(data_matrix1, 0), Col(data_matrix2, 0))
        lin_vel_distance == Norm(Col(data_matrix1, 1)) - Norm(Col(data_matrix2, 1))
        rot_vel_distance == Norm(Col(data_matrix1, 2)) - Norm(Col(data_matrix2, 2))
    IN  weight_t_dist * translation_distance + weight_o_dist * orientation_distance
          + weight_lin_vel * lin_vel_distance + weight_rot_vel * rot_vel_distance

link_distance(data_matrix1, data_matrix2) ==
    LET translation_distance == Norm(VecSub(Col(data_matrix1, 3), Col(data_matrix2, 3)))
        orientation_distance == 1 - Dot(Col(data_matrix1, 0), Col(data_matrix2, 0))
        lin_vel_distance == Norm(VecSub(Col(data_matrix1, 1), Col(data_matrix2, 1)))
        rot_vel_distance == Norm(VecSub(Col(data_matrix1, 2), Col(data_matrix2, 2)))
    IN  weight_t_dist * translation_distance + weight_o_dist * orientation_distance
          + weight_lin_vel * lin_vel_distance + weight_rot_vel * rot_vel_distance

-----------------------------------------------------------------------------
(* cartesian_product.  The outcome is [status |-> "ok", value |-> ...] or  *)
(* [status |-> "raised", error |-> "AssertionError"].                      *)

Raised(e) == [status |-> "raised", error |-> e]

Ok(v) == [status |-> "ok", value |-> v]

\* The concatenation along axis 1 of the two expanded lists: row k is the
\* pair of their k-th elements.
Concatenate1(list1_repeated, list2_tiled) ==
    Tuple([k \in 1..Len(list1_repeated) |-> <<list1_repeated[k], list2_tiled[k]>>])

\* A slip: the first list tiled and the second repeated.
cartesian_product_swapped(list1, list2, flat) ==
    IF ElemShape(list1) # ElemShape(list2)
    THEN Raised("AssertionError")
    ELSE LET list1_repeated == Tile(list1, Len(list2))
             list2_tiled == Repeat(list2, Len(list1))
             flat_cartesian_product == Concatenate1(list1_repeated, list2_tiled)
         IN  IF flat
             THEN Ok(flat_cartesian_product)
             ELSE Ok(Reshape(flat_cartesian_product, Len(list1), Len(list2)))

\* A slip: the assertion compares the whole shapes, lengths included.
cartesian_product_whole_shape(list1, list2, flat) ==
    IF <<Len(list1)>> \o ElemShape(list1) # <<Len(list2)>> \o ElemShape(list2)
    THEN Raised("AssertionError")
    ELSE LET list1_repeated == Repeat(list1, Len(list2))
             list2_tiled == Tile(list2, Len(list1))
             flat_cartesian_product == Concatenate1(list1_repeated, list2_tiled)
         IN  IF flat
             THEN Ok(flat_cartesian_product)
             ELSE Ok(Reshape(flat_cartesian_product, Len(list1), Len(list2)))

cartesian_product(list1, list2, flat) ==
    IF ElemShape(list1) # ElemShape(list2)
    THEN Raised("AssertionError")
    ELSE LET list1_repeated == Repeat(list1, Len(list2))
             list2_tiled == Tile(list2, Len(list1))
             flat_cartesian_product == Concatenate1(list1_repeated, list2_tiled)
         IN  IF flat
             THEN Ok(flat_cartesian_product)
             ELSE Ok(Reshape(flat_cartesian_product, Len(list1), Len(list2)))

-----------------------------------------------------------------------------
(* calculate_weight_matrix.  An embodiment is [num_links,                  *)
(* link_dists_from_origin], the two attributes the function reads.         *)

\* distinctness=100 of the signature, in hundreds
DefaultDistinctness == 1

\* exp(x) for an integer x <= 0 in units of ln 2
Exp(x) == Rat(1, Pow2(-x))

\* scipy.special.softmax(m, 0): every column normalised to sum 1
Softmax0(m) ==
    LET ColumnSum(j) == RatSum(Tuple([i2 \in 1..Len(m) |-> Exp(m[i2][j])]))
        At(i, j) == RatDiv(Exp(m[i][j]), ColumnSum(j))
    IN  Matrix(Len(m), Len(m[1]), At)

\* scipy.special.softmax(m, 1): every row normalised to sum 1
Softmax1(m) ==
    LET RowSum(i) == RatSum(Tuple([j2 \in 1..Len(m[1]) |-> Exp(m[i][j2])]))
        At(i, j) == RatDiv(Exp(m[i][j]), RowSum(i))
    IN  Matrix(Len(m), Len(m[1]), At)

\* A slip: the expert's chain distances tiled and the learner's repeated, so
\* that the pairs come learner-major while the reshape stays expert-major.
calculate_weight_matrix_tiled(e_emb, l_emb, distinctness) ==
    LET e_rep == Tile(e_emb.link_dists_from_origin, l_emb.num_links)
        l_tiled == Repeat(l_emb.link_dists_from_origin, e_emb.num_links)
        distances == Tuple([k \in 1..Len(e_rep) |-> Abs(e_rep[k] - l_tiled[k])])
        distance_matrix == Reshape(distances, e_emb.num_links, l_emb.num_links)
        Scaled(i, j) == distance_matrix[i][j] * (-distinctness)
        distance_matrix_sm == Matrix(e_emb.num_links, l_emb.num_links, Scaled)
        sm_el == Softmax0(distance_matrix_sm)
        sm_le == Softmax1(distance_matrix_sm)
        Added(i, j) == RatAdd(sm_el[i][j], sm_le[i][j])
    IN  Matrix(e_emb.num_links, l_emb.num_links, Added)

\* A slip: the distance matrix reshaped learner-major.
calculate_weight_matrix_reshaped(e_emb, l_emb, distinctness) ==
    LET e_rep == Repeat(e_emb.link_dists_from_origin, l_emb.num_links)
        l_tiled == Tile(l_emb.link_dists_from_origin, e_emb.num_links)
        distances == Tuple([k \in 1..Len(e_rep) |-> Abs(e_rep[k] - l_tiled[k])])
        distance_matrix == Reshape(distances, l_emb.num_links, e_emb.num_links)
        Scaled(i, j) == distance_matrix[i][j] * (-distinctness)
        distance_matrix_sm == Matrix(l_emb.num_links, e_emb.num_links, Scaled)
        sm_el == Softmax0(distance_matrix_sm)
        sm_le == Softmax1(distance_matrix_sm)
        Added(i, j) == RatAdd(sm_el[i][j], sm_le[i][j])
    IN  Matrix(l_emb.num_links, e_emb.num_links, Added)

\* A slip: the softmax over the expert links counted twice, the one over the
\* learner links not at all.
calculate_weight_matrix_one_axis(e_emb, l_emb, distinctness) ==
    LET e_rep == Repeat(e_emb.link_dists_from_origin, l_emb.num_links)
        l_tiled == Tile(l_emb.link_dists_from_origin, e_emb.num_links)
        distances == Tuple([k \in 1..Len(e_rep) |-> Abs(e_rep[k] - l_tiled[k])])
        distance_matrix == Reshape(distances, e_emb.num_links, l_emb.num_links)
        Scaled(i, j) == distance_matrix[i][j] * (-distinctness)
        distance_matrix_sm == Matrix(e_emb.num_links, l_emb.num_links, Scaled)
        sm_el == Softmax0(distance_matrix_sm)
        Added(i, j) == RatAdd(sm_el[i][j], sm_el[i][j])
    IN  Matrix(e_emb.num_links, l_emb.num_links, Added)

\* A slip: the exponentials added without the division by their sums.
calculate_weight_matrix_unnormalised(e_emb, l_emb, distinctness) ==
    LET e_rep == Repeat(e_emb.link_dists_from_origin, l_emb.num_links)
        l_tiled == Tile(l_emb.link_dists_from_origin, e_emb.num_links)
        distances == Tuple([k \in 1..Len(e_rep) |-> Abs(e_rep[k] - l_tiled[k])])
        distance_matrix == Reshape(distances, e_emb.num_links, l_emb.num_links)
        Scaled(i, j) == distance_matrix[i][j] * (-distinctness)
        distance_matrix_sm == Matrix(e_emb.num_links, l_emb.num_links, Scaled)
        Added(i, j) == RatAdd(Exp(distance_matrix_sm[i][j]), Exp(distance_matrix_sm[i][j]))
    IN  Matrix(e_emb.num_links, l_emb.num_links, Added)

calculate_weight_matrix(e_emb, l_emb, distinctness) ==
    LET e_rep == Repeat(e_emb.link_dists_from_origin, l_emb.num_links)
        l_tiled == Tile(l_emb.link_dists_from_origin, e_emb.num_links)
        distances == Tuple([k \in 1..Len(e_rep) |-> Abs(e_rep[k] - l_tiled[k])])
        distance_matrix == Reshape(distances, e_emb.num_links, l_emb.num_links)
        Scaled(i, j) == distance_matrix[i][j] * (-distinctness)
        distance_matrix_sm == Matrix(e_emb.num_links, l_emb.num_links, Scaled)
        sm_el == Softmax0(distance_matrix_sm)
        sm_le == Softmax1(distance_matrix_sm)
        Added(i, j) == RatAdd(sm_el[i][j], sm_le[i][j])
    IN  Matrix(e_emb.num_links, l_emb.num_links, Added)

\* An embodiment with the given chain distances.
Embodiment(dists) == [num_links |-> Len(dists), link_dists_from_origin |-> dists]

-----------------------------------------------------------------------------
(* GazeboEnv._calculate_reward, from the data matrices on (lines 339-344). *)

\* np.mean of a matrix of rationals
Mean(m) ==
    RatDiv(RatSum(Tuple([i \in 1..Len(m) |-> RatSum(m[i])])),
           RatOfInt(Len(m) * Len(m[1])))

\* A slip: the product taken learner first, so that the flat order is
\* learner-major while the reshape and the weights stay expert-major.
reward_of_data_matrices_swapped(e_data_matrices, l_data_matrices, e_n, l_n, w) ==
    LET data_matrix_combinations ==
            cartesian_product(l_data_matrices, e_data_matrices, TRUE).value
        distances == Tuple([k \in 1..Len(data_matrix_combinations) |->
                         -link_distance(data_matrix_combinations[k][2],
                                        data_matrix_combinations[k][1])])
        distance_matrix == Reshape(distances, e_n, l_n)
        Weighted(i, j) == RatMul(RatOfInt(distance_matrix[i][j]), w[i][j])
        weighted_matrix == Matrix(e_n, l_n, Weighted)
    IN  Mean(weighted_matrix)

reward_of_data_matrices(e_data_matrices, l_data_matrices, e_n, l_n, w) ==
    LET data_matrix_combinations ==
            cartesian_product(e_data_matrices, l_data_matrices, TRUE).value
        distances == Tuple([k \in 1..Len(data_matrix_combinations) |->
                         -link_distance(data_matrix_combinations[k][1],
                                        data_matrix_combinations[k][2])])
        distance_matrix == Reshape(distances, e_n, l_n)
        Weighted(i, j) == RatMul(RatOfInt(distance_matrix[i][j]), w[i][j])
        weighted_matrix == Matrix(e_n, l_n, Weighted)
    IN  Mean(weighted_matrix)

-----------------------------------------------------------------------------
(* Calls of the pure functions: call holds the function's name and its     *)
(* arguments, ret the outcome, [status |-> "pending"] before the call ran. *)

Pending == [status |-> "pending"]

NoCall == [fn |-> "none"]

\* Orientation axes: three of unit length, two that are not.
UnitAxes == {<<1, 0, 0>>, <<0, 1, 0>>, <<-1, 0, 0>>}

Axes == UnitAxes \cup {<<1, 1, 0>>, <<0, 0, 0>>}

\* Positions and velocities: the difference of any two has an integer norm.
Vecs == {<<0, 0, 0>>, <<3, 0, 0>>, <<3, 4, 0>>}

DataMatrices ==
    {MatrixOfCols(c0, c1, c2, c3) : c0 \in Axes, c1 \in Vecs, c2 \in Vecs, c3 \in Vecs}

ApplyLinkDistance ==
    /\ call.fn = "link_distance"
    /\ ret = Pending
    /\ ret' = Ok(link_distance(call.data_matrix1, call.data_matrix2))
    /\ UNCHANGED <<call, envVars>>

\* Lists of 1..MaxLen scalars, and of as many vectors of two or of three
\* components.
ScalarLists == SeqsOf({Scalar(x) : x \in 0..1}, 1, MaxLen)

VectorLists ==
    SeqsOf({Vector(<<x, y>>) : x \in 0..1, y \in 0..1}, 1, MaxLen)
      \cup SeqsOf({Vector(<<x, 0, 1>>) : x \in 0..1}, 1, MaxLen)

Lists == ScalarLists \cup VectorLists

ApplyCartesianProduct ==
    /\ call.fn = "cartesian_product"
    /\ ret = Pending
    /\ ret' = cartesian_product(call.list1, call.list2, call.flat)
    /\ UNCHANGED <<call, envVars>>

\* Embodiments of 1..MaxLinks links at chain distances 0..MaxDist, in any order.
Embodiments == {Embodiment(d) : d \in SeqsOf(0..MaxDist, 1, MaxLinks)}

ApplyCalculateWeightMatrix ==
    /\ call.fn = "calculate_weight_matrix"
    /\ ret = Pending
    /\ ret' = Ok(calculate_weight_matrix(call.e_embodiment, call.l_embodiment,
                                         call.distinctness))
    /\ UNCHANGED <<call, envVars>>

\* The links the reward calculation is tried on: a chain distance and the
\* link's data matrix <<axis, linear velocity, angular velocity, position>>.
LinkKinds ==
    {[dist |-> 0, data_matrix |->
         MatrixOfCols(<<1, 0, 0>>, <<0, 0, 0>>, <<0, 0, 0>>, <<0, 0, 0>>)],
     [dist |-> 0, data_matrix |->
         MatrixOfCols(<<0, 1, 0>>, <<3, 4, 0>>, <<0, 0, 0>>, <<3, 0, 0>>)],
     [dist |-> 1, data_matrix |->
         MatrixOfCols(<<-1, 0, 0>>, <<3, 0, 0>>, <<3, 4, 0>>, <<3, 4, 0>>)],
     [dist |-> 2, data_matrix |->
         MatrixOfCols(<<0, 1, 0>>, <<3, 4, 0>>, <<0, 0, 0>>, <<3, 0, 0>>)]}

LinkChains == SeqsOf(LinkKinds, 1, MaxLinks)

EmbodimentOf(chain) == Embodiment(Tuple([i \in 1..Len(chain) |-> chain[i].dist]))

DataMatricesOf(chain) == Tuple([i \in 1..Len(chain) |-> chain[i].data_matrix])

\* The constructor's weight matrix (line 138) followed by lines 339-344 of
\* the reward calculation, on the data matrices of the two chains.
RewardOfChains(e_chain, l_chain) ==
    reward_of_data_matrices(
        DataMatricesOf(e_chain), DataMatricesOf(l_chain), Len(e_chain), Len(l_chain),
        calculate_weight_matrix(EmbodimentOf(e_chain), EmbodimentOf(l_chain),
                                DefaultDistinctness))

ApplyReward ==
    /\ call.fn = "reward"
    /\ ret = Pending
    /\ ret' = Ok(RewardOfChains(call.e_chain, call.l_chain))
    /\ UNCHANGED <<call, envVars>>

-----------------------------------------------------------------------------
(* The embodiment model's data_matrices, which is not part of the file: a  *)
(* vertical stack of links, link i at height link_dists_from_origin[i],    *)
(* every joint turning its link and the links above it about the vertical  *)
(* axis.  Joint angles are counted in quarter turns.  The columns are in   *)
(* the order link_distance reads them: orientation axis, linear velocity,  *)
(* angular velocity, position.                                             *)

AxisOfAngle(a) ==
    CASE a % 4 = 0 -> <<1, 0, 0>>
      [] a % 4 = 1 -> <<0, 1, 0>>
      [] a % 4 = 2 -> <<-1, 0, 0>>
      [] OTHER     -> <<0, -1, 0>>

SumUpTo(s, i) == SumSeq(Tuple([k \in 1..i |-> s[k]]))

\* The call is defined on one angle and one velocity per link.
data_matrices_defined(emb, joint_angles, joint_velocities) ==
    /\ Len(joint_angles) = emb.num_links
    /\ Len(joint_velocities) = emb.num_links

data_matrices(emb, joint_angles, joint_velocities) ==
    Tuple([i \in 1..emb.num_links |->
              MatrixOfCols(AxisOfAngle(SumUpTo(joint_angles, i)),
                           <<0, 0, 0>>,
                           <<0, 0, SumUpTo(joint_velocities, i)>>,
                           <<0, 0, emb.link_dists_from_origin[i]>>)])

\* GazeboEnv._calculate_reward
_calculate_reward(e_emb, l_emb, w, e_angles, e_angle_velocities, l_angles, l_angle_velocities) ==
    IF /\ data_matrices_defined(e_emb, e_angles, e_angle_velocities)
       /\ data_matrices_defined(l_emb, l_angles, l_angle_velocities)
    THEN Ok(reward_of_data_matrices(
                data_matrices(e_emb, e_angles, e_angle_velocities),
                data_matrices(l_emb, l_angles, l_angle_velocities),
                e_emb.num_links, l_emb.num_links, w))
    ELSE Raised("data_matrices")

-----------------------------------------------------------------------------
(* The recordings.  Recording b holds one joint_state message of the       *)
(* expert per second, at 0..BagLast(b) seconds after its start.            *)

Bagfiles == {1, 2}

BagLast(b) == b - 1

\* self.duration
duration == 1

ExpertMessage(b, t, n) ==
    [position |-> [i \in 1..n |-> (t + b) % (MaxAngle + 1)],
     velocity |-> [i \in 1..n |-> t % (MaxVel + 1)],
     effort   |-> [i \in 1..n |-> (t + b) % 2]]

\* The times of the messages read_messages yields from start_time on.
BagWindow(b, time) == {t \in 0..BagLast(b) : time <= t /\ t <= duration}

\* _get_expert_state_from_bagfile: the first message of the window, or
\* StopIteration when the window holds none.
_get_expert_state_from_bagfile(b, time, n) ==
    IF BagWindow(b, time) = {}
    THEN Raised("StopIteration")
    ELSE Ok(ExpertMessage(b, CHOOSE t \in BagWindow(b, time) :
                                 \A u \in BagWindow(b, time) : t <= u, n))

-----------------------------------------------------------------------------
(* GazeboEnv, the simulator it drives and the subscriber's thread.        *)
(* The simulator emits joint_state messages while its physics is not      *)
(* paused; the subscriber keeps the latest one (queue_size=1) until its   *)
(* thread runs _joint_state_callback on it.  A message is "fresh" when it *)
(* was produced after the latest reset of the simulation, "stale" when it *)
(* was produced before it.                                                *)

Zeros(n) == [i \in 1..n |-> 0]

NoReward == <<>>

NoFields == [taken |-> FALSE]

NotReturned == [fn |-> "none", status |-> "none"]

\* The joint_state messages of the learner: every joint at the same angle and
\* the same velocity.
JointStates(n) ==
    {[position |-> [i \in 1..n |-> a], velocity |-> [i \in 1..n |-> v], stamp |-> t] :
        a \in 0..MaxAngle, v \in 0..MaxVel, t \in 0..MaxStamp}

\* The embodiments the environment is built with: chains of 1..MaxLinks
\* links, link i at chain distance i - 1.
EnvEmbodiments == {Embodiment([i \in 1..n |-> i - 1]) : n \in 1..MaxLinks}

\* np.concatenate([l_position, l_velocity, e_position, e_velocity])
Observation == l_position \o l_velocity \o e_position \o e_velocity

\* What a reset of the simulation makes of a message produced before it.
Outdated(m) == IF m = "fresh" THEN "stale" ELSE m

\* _restart_state_controller
restart_state_controller == <<"stop_controller", "start_controller">>

\* __init__
Constructed(e_emb, l_emb, bag) ==
    /\ pc = "idle"
    /\ e_embodiment = e_emb
    /\ l_embodiment = l_emb
    /\ weight_matrix = calculate_weight_matrix(e_emb, l_emb, DefaultDistinctness)
    /\ last_time_stamp = 0
    /\ e_position = Zeros(e_emb.num_links)
    /\ e_velocity = Zeros(e_emb.num_links)
    /\ e_effort = Zeros(e_emb.num_links)
    /\ l_position = Zeros(l_emb.num_links)
    /\ l_velocity = Zeros(l_emb.num_links)
    /\ received_first_ldata = FALSE
    /\ done = FALSE
    /\ bagfile = bag
    /\ bagfile_usage_count = 0
    /\ step_done = FALSE
    /\ reward = NoReward
    /\ fields_at_reward = NoFields
    /\ returned = NotReturned
    /\ queue = "empty"
    /\ l_message = "none"
    /\ calls = <<"bag_open">>
    /\ bag_served = 0
    /\ open_bags = 1

\* A slip: the recording replaced at every reset() after the first.
ResetBegin_replaces_early ==
    /\ pc = "idle"
    /\ IF bagfile_usage_count >= 1
       THEN /\ bagfile' \in Bagfiles
            /\ bagfile_usage_count' = 0
            /\ bag_served' = 1
            /\ open_bags' = (open_bags - 1) + 1
            /\ calls' = <<"bag_close", "bag_open", "publish_zero", "reset_simulation",
                          "unpause_physics">> \o restart_state_controller
       ELSE /\ bag_served' = bag_served + 1
            /\ calls' = <<"publish_zero", "reset_simulation", "unpause_physics">>
                           \o restart_state_controller
            /\ UNCHANGED <<bagfile, bagfile_usage_count, open_bags>>
    /\ paused' = FALSE
    /\ queue' = Outdated(queue)
    /\ l_message' = Outdated(l_message)
    /\ received_first_ldata' = FALSE
    /\ returned' = NotReturned
    /\ pc' = "reset_wait"
    /\ UNCHANGED <<e_embodiment, l_embodiment, weight_matrix, e_position, e_velocity,
                   e_effort, l_position, l_velocity, last_time_stamp, done, step_done,
                   reward, fields_at_reward, callVars>>

\* reset(), lines 204-226: the recording is closed and another opened after
\* two uses, the zero command is published, the simulation is reset and
\* unpaused, the state controller restarted, the flag cleared.
ResetBegin ==
    /\ pc = "idle"
    /\ IF bagfile_usage_count >= 2
       THEN /\ bagfile' \in Bagfiles
            /\ bagfile_usage_count' = 0
            /\ bag_served' = 1
            /\ open_bags' = (open_bags - 1) + 1
            /\ calls' = <<"bag_close", "bag_open", "publish_zero", "reset_simulation",
                          "unpause_physics">> \o restart_state_controller
       ELSE /\ bag_served' = bag_served + 1
            /\ calls' = <<"publish_zero", "reset_simulation", "unpause_physics">>
                           \o restart_state_controller
            /\ UNCHANGED <<bagfile, bagfile_usage_count, open_bags>>
    /\ paused' = FALSE
    /\ queue' = Outdated(queue)
    /\ l_message' = Outdated(l_message)
    /\ received_first_ldata' = FALSE
    /\ returned' = NotReturned
    /\ pc' = "reset_wait"
    /\ UNCHANGED <<e_embodiment, l_embodiment, weight_matrix, e_position, e_velocity,
                   e_effort, l_position, l_velocity, last_time_stamp, done, step_done,
                   reward, fields_at_reward, callVars>>

\* reset(), lines 227-244: the loop ends once a message was received; the
\* simulation is paused and the expert's state is read at the learner's time
\* stamp.
ResetFinish ==
    /\ pc = "reset_wait"
    /\ received_first_ldata
    /\ calls' = calls \o <<"sleep", "pause_physics">>
    /\ paused' = TRUE
    /\ LET e == _get_expert_state_from_bagfile(bagfile, last_time_stamp,
                                               e_embodiment.num_links)
           e_pos == IF e.status = "ok" THEN e.value.position ELSE e_position
           e_vel == IF e.status = "ok" THEN e.value.velocity ELSE e_velocity
       IN  /\ e_position' = e_pos
           /\ e_velocity' = e_vel
           /\ e_effort' = IF e.status = "ok" THEN e.value.effort ELSE e_effort
           /\ done' = (e.status # "ok")
           /\ returned' = [fn |-> "reset", status |-> "ok",
                           observation |-> l_position \o l_velocity \o e_pos \o e_vel]
    /\ bagfile_usage_count' = bagfile_usage_count + 1
    /\ pc' = "idle"
    /\ UNCHANGED <<e_embodiment, l_embodiment, weight_matrix, l_position, l_velocity,
                   last_time_stamp, received_first_ldata, bagfile, step_done, reward,
                   fields_at_reward, queue, l_message, bag_served, open_bags, callVars>>

\* A slip: the action published before the state controller is restarted.
StepBegin_publishes_first ==
    /\ pc = "idle"
    /\ calls' = <<"unpause_physics", "publish_command">> \o restart_state_controller
                   \o <<"sleep">>
    /\ paused' = FALSE
    /\ returned' = NotReturned
    /\ pc' = "step_sleep"
    /\ UNCHANGED <<e_embodiment, l_embodiment, weight_matrix, e_position, e_velocity,
                   e_effort, l_position, l_velocity, last_time_stamp,
                   received_first_ldata, done, bagfile, bagfile_usage_count, step_done,
                   reward, fields_at_reward, queue, l_message, bag_served, open_bags,
                   callVars>>

\* step(), lines 253-270: the simulation is unpaused, the state controller
\* restarted, the action published, and the simulation runs for step_size.
StepBegin ==
    /\ pc = "idle"
    /\ calls' = <<"unpause_physics">> \o restart_state_controller
                   \o <<"publish_command", "sleep">>
    /\ paused' = FALSE
    /\ returned' = NotReturned
    /\ pc' = "step_sleep"
    /\ UNCHANGED <<e_embodiment, l_embodiment, weight_matrix, e_position, e_velocity,
                   e_effort, l_position, l_velocity, last_time_stamp,
                   received_first_ldata, done, bagfile, bagfile_usage_count, step_done,
                   reward, fields_at_reward, queue, l_message, bag_served, open_bags,
                   callVars>>

\* A slip: the expert's state cleared when the recording is exhausted.
StepExpert_clears_expert ==
    /\ pc = "step_sleep"
    /\ calls' = Append(calls, "pause_physics")
    /\ paused' = TRUE
    /\ LET e == _get_expert_state_from_bagfile(bagfile, last_time_stamp,
                                               e_embodiment.num_links)
       IN  /\ e_position' = IF e.status = "ok" THEN e.value.position
                                               ELSE Zeros(e_embodiment.num_links)
           /\ e_velocity' = IF e.status = "ok" THEN e.value.velocity
                                               ELSE Zeros(e_embodiment.num_links)
           /\ e_effort' = IF e.status = "ok" THEN e.value.effort
                                             ELSE Zeros(e_embodiment.num_links)
           /\ step_done' = (e.status # "ok")
    /\ pc' = "step_reward"
    /\ UNCHANGED <<e_embodiment, l_embodiment, weight_matrix, l_position, l_velocity,
                   last_time_stamp, received_first_ldata, done, bagfile,
                   bagfile_usage_count, reward, fields_at_reward, returned, queue,
                   l_message, bag_served, open_bags, callVars>>

\* A slip: the simulation left running when step() goes on.
StepExpert_leaves_running ==
    /\ pc = "step_sleep"
    /\ LET e == _get_expert_state_from_bagfile(bagfile, last_time_stamp,
                                               e_embodiment.num_links)
       IN  /\ e_position' = IF e.status = "ok" THEN e.value.position ELSE e_position
           /\ e_velocity' = IF e.status = "ok" THEN e.value.velocity ELSE e_velocity
           /\ e_effort' = IF e.status = "ok" THEN e.value.effort ELSE e_effort
           /\ step_done' = (e.status # "ok")
    /\ pc' = "step_reward"
    /\ UNCHANGED <<e_embodiment, l_embodiment, weight_matrix, l_position, l_velocity,
                   last_time_stamp, received_first_ldata, done, bagfile,
                   bagfile_usage_count, reward, fields_at_reward, returned, paused,
                   calls, queue, l_message, bag_served, open_bags, callVars>>

\* step(), lines 272-281: the simulation is paused and the expert's state
\* read at the learner's time stamp.
StepExpert ==
    /\ pc = "step_sleep"
    /\ calls' = Append(calls, "pause_physics")
    /\ paused' = TRUE
    /\ LET e == _get_expert_state_from_bagfile(bagfile, last_time_stamp,
                                               e_embodiment.num_links)
       IN  /\ e_position' = IF e.status = "ok" THEN e.value.position ELSE e_position
           /\ e_velocity' = IF e.status = "ok" THEN e.value.velocity ELSE e_velocity
           /\ e_effort' = IF e.status = "ok" THEN e.value.effort ELSE e_effort
           /\ step_done' = (e.status # "ok")
    /\ pc' = "step_reward"
    /\ UNCHANGED <<e_embodiment, l_embodiment, weight_matrix, l_position, l_velocity,
                   last_time_stamp, received_first_ldata, done, bagfile,
                   bagfile_usage_count, reward, fields_at_reward, returned, queue,
                   l_message, bag_served, open_bags, callVars>>

\* step(), line 283: the call of _calculate_reward.
RewardOfStep ==
    _calculate_reward(e_embodiment, l_embodiment, weight_matrix,
                      e_position, e_velocity, l_position, e_velocity)

\* A slip: the weight matrix computed again in step(), from a distinctness
\* of 0.
StepReward_recomputes_weights ==
    /\ pc = "step_reward"
    /\ weight_matrix' = calculate_weight_matrix(e_embodiment, l_embodiment, 0)
    /\ IF RewardOfStep.status = "ok"
       THEN /\ reward' = RewardOfStep.value
            /\ fields_at_reward' = [taken |-> TRUE, l_position |-> l_position,
                                    l_velocity |-> l_velocity]
            /\ pc' = "step_return"
            /\ UNCHANGED <<returned, step_done>>
       ELSE /\ returned' = [fn |-> "step", status |-> "raised",
                            error |-> RewardOfStep.error]
            /\ step_done' = FALSE
            /\ pc' = "idle"
            /\ UNCHANGED <<reward, fields_at_reward>>
    /\ UNCHANGED <<e_embodiment, l_embodiment, e_position, e_velocity, e_effort,
                   l_position, l_velocity, last_time_stamp, received_first_ldata, done,
                   bagfile, bagfile_usage_count, paused, queue, l_message, calls,
                   bag_served, open_bags, callVars>>

\* step(), lines 283-284; an exception of the call leaves step().
StepReward ==
    /\ pc = "step_reward"
    /\ IF RewardOfStep.status = "ok"
       THEN /\ reward' = RewardOfStep.value
            /\ fields_at_reward' = [taken |-> TRUE, l_position |-> l_position,
                                    l_velocity |-> l_velocity]
            /\ pc' = "step_return"
            /\ UNCHANGED <<returned, step_done>>
       ELSE /\ returned' = [fn |-> "step", status |-> "raised",
                            error |-> RewardOfStep.error]
            /\ step_done' = FALSE
            /\ pc' = "idle"
            /\ UNCHANGED <<reward, fields_at_reward>>
    /\ UNCHANGED <<e_embodiment, l_embodiment, weight_matrix, e_position, e_velocity,
                   e_effort, l_position, l_velocity, last_time_stamp,
                   received_first_ldata, done, bagfile, bagfile_usage_count, paused,
                   queue, l_message, calls, bag_served, open_bags, callVars>>

\* step(), lines 285-287
StepReturn ==
    /\ pc = "step_return"
    /\ returned' = [fn |-> "step", status |-> "ok", observation |-> Observation,
                    reward |-> reward, done |-> step_done]
    /\ step_done' = FALSE
    /\ reward' = NoReward
    /\ fields_at_reward' = NoFields
    /\ pc' = "idle"
    /\ UNCHANGED <<e_embodiment, l_embodiment, weight_matrix, e_position, e_velocity,
                   e_effort, l_position, l_velocity, last_time_stamp,
                   received_first_ldata, done, bagfile, bagfile_usage_count, paused,
                   queue, l_message, calls, bag_served, open_bags, callVars>>

\* The simulator, while its physics runs, emits a joint_state message; the
\* subscriber's queue of one keeps the latest.
SimulatorPublishes ==
    /\ ~paused
    /\ queue' = "fresh"
    /\ UNCHANGED <<pc, e_embodiment, l_embodiment, weight_matrix, e_position,
                   e_velocity, e_effort, l_position, l_velocity, last_time_stamp,
                   received_first_ldata, done, bagfile, bagfile_usage_count, step_done,
                   reward, fields_at_reward, returned, paused, l_message, calls,
                   bag_served, open_bags, callVars>>

\* _joint_state_callback, on the subscriber's thread, for the queued message
JointStateCallback ==
    /\ queue # "empty"
    /\ \E joint_state \in JointStates(l_embodiment.num_links) :
          /\ l_position' = joint_state.position
          /\ l_velocity' = joint_state.velocity
          /\ last_time_stamp' = joint_state.stamp
    /\ received_first_ldata' = TRUE
    /\ l_message' = queue
    /\ queue' = "empty"
    /\ UNCHANGED <<pc, e_embodiment, l_embodiment, weight_matrix, e_position,
                   e_velocity, e_effort, done, bagfile, bagfile_usage_count, step_done,
                   reward, fields_at_reward, returned, paused, calls, bag_served,
                   open_bags, callVars>>

\* The environment is constructed against a simulator that runs or is paused.
Init ==
    /\ \E e_emb \in EnvEmbodiments, l_emb \in EnvEmbodiments, bag \in Bagfiles :
          Constructed(e_emb, l_emb, bag)
    /\ paused \in BOOLEAN
    /\ call = NoCall
    /\ ret = Pending

Next ==
    \/ ResetBegin
    \/ ResetFinish
    \/ StepBegin
    \/ StepExpert
    \/ StepReward
    \/ StepReturn
    \/ SimulatorPublishes
    \/ JointStateCallback

Spec == Init /\ [][Next]_vars

-----------------------------------------------------------------------------
(* The specifications of the pure functions: the environment is built and  *)
(* left alone, the arguments of the call are drawn, the call is run.       *)

EnvAtRest ==
    /\ Constructed(Embodiment(<<0>>), Embodiment(<<0>>), 1)
    /\ paused = TRUE

InitLinkDistance ==
    /\ EnvAtRest
    /\ call \in {[fn |-> "link_distance", data_matrix1 |-> m1, data_matrix2 |-> m2] :
                    m1 \in DataMatrices, m2 \in DataMatrices}
    /\ ret = Pending

SpecLinkDistance == InitLinkDistance /\ [][ApplyLinkDistance]_vars

InitCartesianProduct ==
    /\ EnvAtRest
    /\ call \in {[fn |-> "cartesian_product", list1 |-> a, list2 |-> b, flat |-> f] :
                    a \in Lists, b \in Lists, f \in BOOLEAN}
    /\ ret = Pending

SpecCartesianProduct == InitCartesianProduct /\ [][ApplyCartesianProduct]_vars

InitWeightMatrix ==
    /\ EnvAtRest
    /\ call \in {[fn |-> "calculate_weight_matrix", e_embodiment |-> e,
                  l_embodiment |-> l, distinctness |-> d] :
                    e \in Embodiments, l \in Embodiments, d \in 0..MaxDistinctness}
    /\ ret = Pending

SpecWeightMatrix == InitWeightMatrix /\ [][ApplyCalculateWeightMatrix]_vars

InitReward ==
    /\ EnvAtRest
    /\ call \in {[fn |-> "reward", e_chain |-> e, l_chain |-> l] :
                    e \in LinkChains, l \in LinkChains}
    /\ ret = Pending

SpecReward == InitReward /\ [][ApplyReward]_vars

-----------------------------------------------------------------------------
(* The claims. *)

\* C1: the reward step() computes is the reward calculation applied to the
\* expert's angles and velocities and the learner's angles and the learner's
\* own velocities, as they were when line 283 ran.
C1_RewardOfLearnerVelocity ==
    pc = "step_return" =>
        reward = _calculate_reward(e_embodiment, l_embodiment, weight_matrix,
                                   e_position, e_velocity,
                                   fields_at_reward.l_position,
                                   fields_at_reward.l_velocity).value

\* The weighted sum the frame distance metric is, over the four columns in
\* the given order of position, linear velocity and angular velocity.
WeightedDistance(m1, m2, pos, lin, ang) ==
    0 * Norm(VecSub(Col(m1, pos), Col(m2, pos)))
      + 1000 * (1 - Dot(Col(m1, 0), Col(m2, 0)))
      + 1 * Norm(VecSub(Col(m1, lin), Col(m2, lin)))
      + 40 * Norm(VecSub(Col(m1, ang), Col(m2, ang)))

\* The matrix m with column c (counted from 0) replaced by the vector v.
WithCol(m, c, v) ==
    MatrixOfCols(IF c = 0 THEN v ELSE Col(m, 0), IF c = 1 THEN v ELSE Col(m, 1),
                 IF c = 2 THEN v ELSE Col(m, 2), IF c = 3 THEN v ELSE Col(m, 3))

\* link_distance was called and has returned.
LinkDistanceRan == call.fn = "link_distance" /\ ret.status = "ok"

\* C2 as claimed: with column 1 the position, column 2 the linear velocity
\* and column 3 the angular velocity, link_distance is 0.0*|pos| + 1.0*(1 -
\* axis.axis) + 0.001*|linvel| + 0.04*|angvel|, and the distance does not
\* change when the position column of one frame is set to the other's.
C2_LayoutAsClaimed ==
    LinkDistanceRan =>
        /\ ret.value = WeightedDistance(call.data_matrix1, call.data_matrix2, 1, 2, 3)
        /\ ret.value = link_distance(call.data_matrix1,
                                     WithCol(call.data_matrix2, 1,
                                             Col(call.data_matrix1, 1)))

\* C2 as amended: the same with column 1 the linear velocity, column 2 the
\* angular velocity and column 3 the position.
C2_LayoutOfCode ==
    LinkDistanceRan =>
        /\ ret.value = WeightedDistance(call.data_matrix1, call.data_matrix2, 3, 1, 2)
        /\ ret.value = link_distance(call.data_matrix1,
                                     WithCol(call.data_matrix2, 3,
                                             Col(call.data_matrix1, 3)))

\* Two frames with the same unit axis that differ in column 3 alone, at
\* distance 0.
C2_Witness ==
    /\ LinkDistanceRan
    /\ Col(call.data_matrix1, 3) # Col(call.data_matrix2, 3)
    /\ call.data_matrix2 = WithCol(call.data_matrix1, 3, Col(call.data_matrix2, 3))
    /\ Col(call.data_matrix1, 0) \in UnitAxes
    /\ ret.value = 0

\* The pure-function call of the given name has run and returned.
Ran(fn) == call.fn = fn /\ ret.status = "ok"

\* C3: the reward is the arithmetic mean, over all pairs of an expert link i
\* and a learner link j, of minus their link distance times the weight at
\* row i, column j.
C3_RewardIsWeightedMean ==
    Ran("reward") =>
        LET e_n == Len(call.e_chain)
            l_n == Len(call.l_chain)
            w == calculate_weight_matrix(EmbodimentOf(call.e_chain),
                                         EmbodimentOf(call.l_chain),
                                         DefaultDistinctness)
            Term(i, j) == RatMul(RatOfInt(-link_distance(call.e_chain[i].data_matrix,
                                                         call.l_chain[j].data_matrix)),
                                 w[i][j])
            OfExpertLink(i) == RatSum(Tuple([j \in 1..l_n |-> Term(i, j)]))
            Total == RatSum(Tuple([i \in 1..e_n |-> OfExpertLink(i)]))
        IN  ret.value = RatDiv(Total, RatOfInt(e_n * l_n))

\* An expert of two links and a learner of one, the two pairs at different
\* weights and different distances.
C3_Witness ==
    /\ Ran("reward")
    /\ Len(call.e_chain) = 2
    /\ Len(call.l_chain) = 1
    /\ call.e_chain[1].dist # call.e_chain[2].dist
    /\ link_distance(call.e_chain[1].data_matrix, call.l_chain[1].data_matrix)
         # link_distance(call.e_chain[2].data_matrix, call.l_chain[1].data_matrix)
    /\ ret.value # RatOfInt(0)

\* C5: the weight matrix has one row per expert link and one column per
\* learner link, and every entry lies in [0, 2].
C5_WeightShapeAndRange ==
    Ran("calculate_weight_matrix") =>
        /\ Len(ret.value) = call.e_embodiment.num_links
        /\ \A i \in 1..Len(ret.value) :
              /\ Len(ret.value[i]) = call.l_embodiment.num_links
              /\ \A j \in 1..Len(ret.value[i]) :
                    /\ RatLeq(RatOfInt(0), ret.value[i][j])
                    /\ RatLeq(ret.value[i][j], RatOfInt(2))

\* C4: the weight matrix is the one the constructor computed from the two
\* embodiments, and no step of reset(), step() or the callback changes it or
\* the embodiments, so it is that matrix in every state.
C4_WeightMatrixFixed ==
    /\ weight_matrix = calculate_weight_matrix(e_embodiment, l_embodiment,
                                               DefaultDistinctness)
    /\ [][/\ weight_matrix' = weight_matrix
           /\ e_embodiment' = e_embodiment
           /\ l_embodiment' = l_embodiment]_vars

\* After a reset() and a step() that returned a reward, with a joint state
\* received that is not the initial one.
C4_Witness ==
    /\ returned.fn = "step"
    /\ returned.status = "ok"
    /\ returned.reward # RatOfInt(0)
    /\ bagfile_usage_count >= 1
    /\ l_position # Zeros(l_embodiment.num_links)
    /\ e_embodiment.num_links = 2

\* Embodiments of different link counts, a positive distinctness, and an
\* entry strictly between 1 and 2.
C5_Witness ==
    /\ Ran("calculate_weight_matrix")
    /\ call.e_embodiment.num_links # call.l_embodiment.num_links
    /\ call.distinctness > 0
    /\ \E i \in 1..Len(ret.value) : \E j \in 1..Len(ret.value[i]) :
          /\ ~RatLeq(ret.value[i][j], RatOfInt(1))
          /\ ~RatLeq(RatOfInt(2), ret.value[i][j])

\* C6: with the expert and the learner swapped the weight matrix is the
\* transpose.
C6_SwapTransposes ==
    Ran("calculate_weight_matrix") =>
        LET swapped == calculate_weight_matrix(call.l_embodiment, call.e_embodiment,
                                               call.distinctness)
        IN  \A i \in 1..call.e_embodiment.num_links :
               \A j \in 1..call.l_embodiment.num_links :
                  swapped[j][i] = ret.value[i][j]

\* Embodiments of different link counts whose weight matrix has two
\* different entries in one row.
C6_Witness ==
    /\ Ran("calculate_weight_matrix")
    /\ call.e_embodiment.num_links = 1
    /\ call.l_embodiment.num_links = 2
    /\ call.distinctness > 0
    /\ ret.value[1][1] # ret.value[1][2]

\* C7: the flat product has len(A)*len(B) rows, row i*len(B)+j the pair
\* (A[i], B[j]); the grid has that pair at [i][j].  (Indices from 1 here.)
C7_EveryPairOnce ==
    Ran("cartesian_product") =>
        LET a == call.list1
            b == call.list2
        IN  IF call.flat
            THEN /\ Len(ret.value) = Len(a) * Len(b)
                 /\ \A i \in 1..Len(a) : \A j \in 1..Len(b) :
                       ret.value[(i - 1) * Len(b) + j] = <<a[i], b[j]>>
            ELSE /\ Len(ret.value) = Len(a)
                 /\ \A i \in 1..Len(a) :
                       /\ Len(ret.value[i]) = Len(b)
                       /\ \A j \in 1..Len(b) : ret.value[i][j] = <<a[i], b[j]>>

\* The flat product of [0, 1] and [0, 1].
C7_Witness ==
    /\ Ran("cartesian_product")
    /\ call.flat
    /\ call.list1 = <<Scalar(0), Scalar(1)>>
    /\ call.list2 = <<Scalar(0), Scalar(1)>>
    /\ ret.value = << <<Scalar(0), Scalar(0)>>, <<Scalar(0), Scalar(1)>>,
                      <<Scalar(1), Scalar(0)>>, <<Scalar(1), Scalar(1)>> >>

\* The elements of the two lists do not all have one shape.
ShapesDiffer(a, b) ==
    \E i \in 1..Len(a) : \E j \in 1..Len(b) : a[i].shape # b[j].shape

\* C8: the call raises, and returns nothing, exactly when the per-element
\* shapes of the two lists differ.
C8_RaisesOnShapeMismatch ==
    (call.fn = "cartesian_product" /\ ret # Pending) =>
        /\ DOMAIN ret = IF ShapesDiffer(call.list1, call.list2)
                        THEN {"status", "error"}
                        ELSE {"status", "value"}
        /\ ret.status = IF ShapesDiffer(call.list1, call.list2) THEN "raised" ELSE "ok"

\* A list of two scalars and a list of one vector: the call raised.
C8_Witness ==
    /\ call.fn = "cartesian_product"
    /\ Len(call.list1) = 2
    /\ call.list1[1].shape = <<>>
    /\ call.list2[1].shape = <<2>>
    /\ ret = Raised("AssertionError")

\* The permutations of 1..n.
Perms(n) == {p \in [1..n -> 1..n] : \A i \in 1..n : \E k \in 1..n : p[k] = i}

\* The chain with its links in the order p: chain distances and data
\* matrices alike.
Permuted(chain, p) == Tuple([i \in 1..Len(chain) |-> chain[p[i]]])

\* C9: the reward does not change when the links of the expert, or of the
\* learner, are put in another order and the weight matrix is computed from
\* the embodiment in that order.
C9_LinkOrderInvariant ==
    Ran("reward") =>
        /\ \A p \in Perms(Len(call.e_chain)) :
              RewardOfChains(Permuted(call.e_chain, p), call.l_chain) = ret.value
        /\ \A p \in Perms(Len(call.l_chain)) :
              RewardOfChains(call.e_chain, Permuted(call.l_chain, p)) = ret.value

\* Two links each, the expert's two at different chain distances and with
\* different data matrices, the learner's likewise, and a reward below 0.
C9_Witness ==
    /\ Ran("reward")
    /\ Len(call.e_chain) = 2
    /\ Len(call.l_chain) = 2
    /\ call.e_chain[1].dist # call.e_chain[2].dist
    /\ call.e_chain[1].data_matrix # call.e_chain[2].data_matrix
    /\ call.l_chain[1].dist # call.l_chain[2].dist
    /\ call.l_chain[1].data_matrix # call.l_chain[2].data_matrix
    /\ ret.value[1] < 0

\* C10: the distance of a frame with a unit orientation axis to itself is 0.
C10_SelfDistanceZero ==
    (/\ LinkDistanceRan
     /\ call.data_matrix1 = call.data_matrix2
     /\ Dot(Col(call.data_matrix1, 0), Col(call.data_matrix1, 0)) = 1)
        => ret.value = 0

\* A frame with a unit axis and velocities that are not zero, compared to
\* itself.
C10_Witness ==
    /\ LinkDistanceRan
    /\ call.data_matrix1 = call.data_matrix2
    /\ Col(call.data_matrix1, 0) = <<0, 1, 0>>
    /\ Col(call.data_matrix1, 1) = <<3, 4, 0>>
    /\ Col(call.data_matrix1, 2) = <<3, 0, 0>>
    /\ ret.value = 0

\* C11: link_distance gives the same value with its two arguments exchanged.
C11_LinkDistanceSymmetric ==
    LinkDistanceRan =>
        ret.value = link_distance(call.data_matrix2, call.data_matrix1)

\* Two frames that differ in the axis and in all three other columns, at a
\* distance that is not 0.
C11_Witness ==
    /\ LinkDistanceRan
    /\ \A c \in 0..3 : Col(call.data_matrix1, c) # Col(call.data_matrix2, c)
    /\ Norm(Col(call.data_matrix1, 1)) # Norm(Col(call.data_matrix2, 1))
    /\ ret.value # 0

\* C12: for two embodiments of one link each the weight matrix is [[2]],
\* whatever the two chain distances and the distinctness.
C12_OneLinkEachGivesTwo ==
    (/\ Ran("calculate_weight_matrix")
     /\ call.e_embodiment.num_links = 1
     /\ call.l_embodiment.num_links = 1)
        => ret.value = <<<<RatOfInt(2)>>>>

\* One link each, at different chain distances, with a positive
\* distinctness.
C12_Witness ==
    /\ Ran("calculate_weight_matrix")
    /\ call.e_embodiment.link_dists_from_origin = <<0>>
    /\ call.l_embodiment.link_dists_from_origin = <<2>>
    /\ call.distinctness > 0
    /\ ret.value = <<<<RatOfInt(2)>>>>

\* C13: when reset() returns, the learner's state it returns, and the time
\* stamp it looked the expert's state up with, are those of a message the
\* simulator produced after reset() reset the simulation.
C13_ResetReturnsFreshState ==
    [][(pc = "reset_wait" /\ pc' = "idle") => l_message = "fresh"]_vars

\* The learner's part of an observation of n learner joints: its positions.
LearnerPosition(observation, n) == SubSeq(observation, 1, n)

\* C14: the learner's position in the observation step() returns is the one
\* the reward of that step was computed from, when line 283 read it.
C14_ObservationOfRewardState ==
    [][(pc = "step_return" /\ pc' = "idle") =>
          LearnerPosition(returned'.observation, l_embodiment.num_links)
             = fields_at_reward.l_position]_vars

\* The places of the call c in the log of calls.
Places(log, c) == {k \in 1..Len(log) : log[k] = c}

\* The calls of the physics services in a log of calls.
IsPhysicsCall(c) == c \in {"unpause_physics", "pause_physics", "reset_simulation"}

\* C15: after reset() or step() has returned the physics is paused; the call
\* unpaused the physics and paused it afterwards, the pause is the last call
\* of a physics service it made, and step() published the action after the
\* unpause and before the pause.
C15_PausedAfterReturn ==
    (pc = "idle" /\ returned.status = "ok") =>
        /\ paused
        /\ \E u \in Places(calls, "unpause_physics") :
           \E p \in Places(calls, "pause_physics") :
              /\ u < p
              /\ \A k \in (p + 1)..Len(calls) : ~IsPhysicsCall(calls[k])
              /\ returned.fn = "step" =>
                    /\ Places(calls, "publish_command") # {}
                    /\ \A c \in Places(calls, "publish_command") : u < c /\ c < p

\* A step() that has returned with a reward, the simulator having run
\* before it was called.
C15_Witness ==
    /\ pc = "idle"
    /\ returned.fn = "step"
    /\ returned.status = "ok"
    /\ paused
    /\ l_message = "fresh"
    /\ Len(calls) = 6

\* C16: every unpause_physics call of reset() and of step() is followed at
\* once by the stop request and then the start request of the state
\* controller, before any command is published and before any sleep.
C16_RestartAfterUnpause ==
    \A u \in Places(calls, "unpause_physics") :
        /\ u + 2 <= Len(calls)
        /\ calls[u + 1] = "stop_controller"
        /\ calls[u + 2] = "start_controller"
        /\ \A k \in 1..Len(calls) :
              (k > u /\ calls[k] \in {"publish_command", "publish_zero", "sleep"})
                 => k > u + 2

\* step() is asleep after it unpaused the physics, restarted the controller
\* and published the action, and the callback has handled a message.
C16_Witness ==
    /\ pc = "step_sleep"
    /\ ~paused
    /\ Places(calls, "unpause_physics") = {1}
    /\ Places(calls, "publish_command") = {4}
    /\ received_first_ldata
    /\ l_message = "fresh"

\* self.reward_range, in thousandths
reward_range == <<-2000, 0>>

\* C17: every reward step() returns lies within reward_range.
C17_RewardWithinRange ==
    (returned.fn = "step" /\ returned.status = "ok") =>
        /\ RatLeq(RatOfInt(reward_range[1]), returned.reward)
        /\ RatLeq(returned.reward, RatOfInt(reward_range[2]))

\* The expert's part of an observation of n learner joints.
ExpertPart(observation, n) == SubSeq(observation, 2 * n + 1, Len(observation))

\* C18: step() sets its done to TRUE exactly when the recording has no
\* message between the learner's time stamp and duration; then the expert's
\* position, velocity and effort stay as they were, otherwise they are those
\* of the first message of the window; StopIteration never leaves step(),
\* which computes the reward from the expert's state as kept or read and
\* returns it with the observation and that done.
C18_DoneWhenRecordingExhausted ==
    /\ [][(pc = "step_sleep" /\ pc' = "step_reward") =>
             LET window == BagWindow(bagfile, last_time_stamp)
                 first == CHOOSE t \in window : \A u \in window : t <= u
                 message == ExpertMessage(bagfile, first, e_embodiment.num_links)
             IN  IF window = {}
                 THEN /\ step_done'
                      /\ e_position' = e_position
                      /\ e_velocity' = e_velocity
                      /\ e_effort' = e_effort
                 ELSE /\ ~step_done'
                      /\ e_position' = message.position
                      /\ e_velocity' = message.velocity
                      /\ e_effort' = message.effort]_vars
    /\ [][(pc = "step_reward" /\ pc' = "step_return") =>
             reward' = _calculate_reward(e_embodiment, l_embodiment, weight_matrix,
                                         e_position, e_velocity, l_position,
                                         e_velocity).value]_vars
    /\ [][(pc = "step_return" /\ pc' = "idle") =>
             /\ returned'.status = "ok"
             /\ returned'.done = step_done
             /\ returned'.reward = reward
             /\ ExpertPart(returned'.observation, l_embodiment.num_links)
                  = e_position \o e_velocity]_vars
    /\ [][returned'.status = "raised" => returned'.error # "StopIteration"]_vars

\* A step() that returned done = TRUE with a reward and with the expert's
\* state of an earlier read, which is not the initial one.
C18_Witness ==
    /\ pc = "idle"
    /\ returned.fn = "step"
    /\ returned.status = "ok"
    /\ returned.done
    /\ returned.reward # RatOfInt(0)
    /\ e_position # Zeros(e_embodiment.num_links)
    /\ e_effort # Zeros(e_embodiment.num_links)
    /\ BagWindow(bagfile, last_time_stamp) = {}

\* How many recordings were open after the first k calls of the log.
OpenBagsAfter(k) ==
    open_bags - Cardinality({j \in Places(calls, "bag_open") : j > k})
              + Cardinality({j \in Places(calls, "bag_close") : j > k})

\* C19: bagfile_usage_count is 0, 1 or 2, and 1 or 2 once a reset() has
\* returned; a reset() closes the recording and opens another exactly when
\* the open one has served two reset() calls, closing before opening; at no
\* point is more than one recording open.
C19_BagServesTwoResets ==
    /\ [](/\ bagfile_usage_count \in 0..2
          /\ (bag_served >= 1 /\ pc # "reset_wait") => bagfile_usage_count \in 1..2
          /\ bag_served \in 0..2
          /\ \A k \in 0..Len(calls) : OpenBagsAfter(k) \in 0..1
          /\ \A k \in Places(calls, "bag_open") :
                k > 1 => calls[k - 1] = "bag_close")
    /\ [][(pc = "idle" /\ pc' = "reset_wait") =>
             /\ (Places(calls', "bag_open") # {}) <=> (bag_served = 2)
             /\ (Places(calls', "bag_close") # {}) <=> (bag_served = 2)]_vars

\* The third reset() has returned: it closed the recording of the first two
\* and opened another, which has served this one reset().
C19_Witness ==
    /\ pc = "idle"
    /\ returned.fn = "reset"
    /\ returned.status = "ok"
    /\ Places(calls, "bag_close") = {1}
    /\ Places(calls, "bag_open") = {2}
    /\ bagfile_usage_count = 1
    /\ bag_served = 1
    /\ open_bags = 1

=============================================================================
